---- MODULE Spec2Model ----
(***************************************************************************)
(* Reconciliation state machine of the Cilium charm (src/src/charm.py).    *)
(*                                                                         *)
(* Every trigger handler of CiliumCharm is one atomic action               *)
(* (run-to-completion).  The handlers are written as operators over a      *)
(* machine record m that carries the persisted flags (StoredState), the    *)
(* unit status, the in-memory metric list, the local service state, the    *)
(* cni relation data and a log of the observable events of the handler.    *)
(* The outcomes of the collaborators (manifest backend, systemctl, CLI      *)
(* resources) are inputs of the actions.                                   *)
(***************************************************************************)
EXTENDS Integers, Sequences, FiniteSets, TLC

VARIABLES
    stored,          \* StoredState: the four persisted flags
    status,          \* unit.status, <<level, message>>
    hubble_metrics,  \* self.hubble_metrics, the in-memory validated list
    service,         \* hubble-port-forward.service: [active], what is-active reports
    config,          \* model.config (read-only for the handlers)
    cni,             \* model.relations["cni"]: list of relations
    last,            \* history: the last handler, its log and snapshots, and
                     \* the parity of the update-status hooks run in a row
    pass             \* history: the last convergence pass

vars == <<stored, status, hubble_metrics, service, config, cni, last, pass>>

(***************************************************************************)
(* Bounds                                                                  *)
(***************************************************************************)
\* collaborator failures injected into one handler invocation
MaxFaults == 1
\* sizes of the inputs of the pure functions
MaxRelations == 2
MaxUnits == 2
MaxPortLen == 5

(***************************************************************************)
(* Statuses (ops.model)                                                    *)
(***************************************************************************)
ActiveStatus(msg) == <<"active", msg>>
BlockedStatus(msg) == <<"blocked", msg>>
MaintenanceStatus(msg) == <<"maintenance", msg>>
WaitingStatus(msg) == <<"waiting", msg>>

PORT_FORWARD_SERVICE == "hubble-port-forward.service"

\* a value that is absent from a mapping (dict.get returns None)
None == "<none>"

\* Python truthiness of an optional string
Truthy(v) == v # None /\ v # ""

(***************************************************************************)
(* Configuration values.  A string option is the sequence of its maximal   *)
(* non-blank runs and its blanks, so "dns drop" is <<"dns", " ", "drop">>. *)
(***************************************************************************)
MetricsValues ==
    { <<>>,
      <<"dns">>,
      <<"dns", " ", "bogus-metric">> }

CidrValues == {"10.0.0.0/24"}

\* tunnel-protocol is one of the options the charm hands to the manifests
\* as they are
TunnelValues == {"vxlan", "geneve", "gre"}

Configs ==
    [ enable_hubble : BOOLEAN,
      port_forward_hubble : BOOLEAN,
      enable_hubble_metrics : MetricsValues,
      cluster_pool_ipv4_cidr : CidrValues,
      tunnel_protocol : {"vxlan"} ]

\* the configurations that differ in the tunnel protocol alone
TunnelConfigs ==
    [ enable_hubble : {FALSE},
      port_forward_hubble : {FALSE},
      enable_hubble_metrics : {<<>>},
      cluster_pool_ipv4_cidr : CidrValues,
      tunnel_protocol : TunnelValues ]

\* str.split(): the non-blank runs, in order
Split(s) == SelectSeq(s, LAMBDA t : t # " ")

(***************************************************************************)
(* model.relations["cni"]: a list of relations, each with the data of its  *)
(* remote units.  The data this unit publishes is write-only and is kept   *)
(* in the log.                                                             *)
(***************************************************************************)
UnitData(hash, cidr) == [kubeconfig_hash |-> hash, service_cidr |-> cidr]

Relation(units) == [units |-> units]

NotReady == UnitData(None, None)
EmptyHash == UnitData("", None)
Ready == UnitData("abcd1234", "10.152.183.0/24")

CniChoices ==
    { <<>>,
      <<Relation(<<>>)>>,
      <<Relation(<<NotReady>>)>>,
      <<Relation(<<EmptyHash>>)>>,
      <<Relation(<<Ready>>)>>,
      <<Relation(<<NotReady>>), Relation(<<EmptyHash, Ready>>)>> }

(***************************************************************************)
(* Outcomes of the collaborators                                           *)
(***************************************************************************)
ClientErrors == {"ManifestClientError", "ConnectError"}
\* "Exception" stands for any exception type that no except clause names: it
\* leaves the handler where it is raised, with the state as far as it got
BackendOutcomes == {"ok"} \cup ClientErrors \cup {"Exception"}
SystemctlOutcomes == {"ok", "CalledProcessError"}
ResourceOutcomes == {"ok", "ModelError", "NameError", "PermissionError", "TarError"}

\* what the log keeps of a backend outcome
Result(o) == IF o = "ok" THEN "ok"
             ELSE IF o \in ClientErrors THEN "client-error"
             ELSE "unexpected"

(***************************************************************************)
(* Log and status helpers                                                  *)
(***************************************************************************)
Log(m, kind, a, b) == [m EXCEPT !.log = Append(@, <<kind, a, b>>)]

SetStatus(m, s) == Log([m EXCEPT !.status = s], "status", s[1], s[2])

BoolStr(b) == IF b THEN "True" ELSE "False"

SetStored(m, flag, b) ==
    Log([m EXCEPT !.stored[flag] = b], "stored", flag, BoolStr(b))

Raise(m, exc) == [m EXCEPT !.raised = exc]

(***************************************************************************)
(* The machine record of a handler invocation                              *)
(***************************************************************************)
NoArgs ==
    [ service_cidr |-> None, hubble_metrics |-> <<>>, tunnel_protocol |-> None,
      applied |-> FALSE ]

NoStatus == <<"", "">>

NoPass ==
    [ ran |-> FALSE, kube |-> FALSE, returned |-> FALSE,
      stored |-> [cilium_configured |-> FALSE, hubble_configured |-> FALSE,
                  hubble_mismatch_config |-> FALSE, unallowed_metrics |-> FALSE],
      status |-> NoStatus, hubble_metrics |-> <<>>, cni_args |-> NoArgs ]

Machine ==
    [ stored |-> stored, status |-> status, hubble_metrics |-> hubble_metrics,
      service |-> service, cni |-> cni, log |-> <<>>, raised |-> "",
      cni_args |-> NoArgs, pass |-> NoPass, sas_before |-> NoStatus ]

(***************************************************************************)
(* Helpers of CiliumCharm                                                  *)
(***************************************************************************)
\* mutation: the Waiting status is written and the event is not deferred
ops_wait_for_without_defer(m, msg) == SetStatus(m, WaitingStatus(msg))

\* event.defer() hands the event back to the framework; the log keeps the call
ops_wait_for(m, msg) ==
    Log(SetStatus(m, WaitingStatus(msg)), "defer", msg, "")

\* mutation: a present but empty kubeconfig-hash counts as a kubeconfig
get_kubeconfig_status_any_value(c) ==
    \E i \in 1..Len(c) : \E j \in 1..Len(c[i].units) :
        c[i].units[j].kubeconfig_hash # None

\* mutation: only the first remote unit of every relation is examined
get_kubeconfig_status_first_unit(c) ==
    \E i \in 1..Len(c) :
        Len(c[i].units) > 0 /\ Truthy(c[i].units[1].kubeconfig_hash)

get_kubeconfig_status(c) ==
    \E i \in 1..Len(c) : \E j \in 1..Len(c[i].units) :
        Truthy(c[i].units[j].kubeconfig_hash)

RECURSIVE FlatUnits(_)
FlatUnits(c) == IF c = <<>> THEN <<>> ELSE Head(c).units \o FlatUnits(Tail(c))

get_service_cidr(c) ==
    LET found == SelectSeq(FlatUnits(c), LAMBDA u : Truthy(u.service_cidr))
    IN  IF found = <<>> THEN None ELSE found[1].service_cidr

get_service_status(m) == IF m.service.active THEN 0 ELSE 3

\* TunnelEncapsulation.validate_tunnel_protocol: no handler of the charm
\* calls it
validate_tunnel_protocol(v) == v \in {"vxlan", "geneve"}

\* A port is a Python str: the sequence of its characters.  NoPort is None.
NoPort == <<None>>
ValueError == <<"ValueError">>

PROTOCOL_DEFAULT_PORTS ==
    [ p \in {"vxlan", "geneve"} |->
        IF p = "vxlan" THEN <<"8", "4", "7", "2">> ELSE <<"6", "0", "8", "1">> ]

DecimalDigits == {"0", "1", "2", "3", "4", "5", "6", "7", "8", "9"}

\* str.isdigit() on ASCII text: not empty and nothing but digits
isdigit(v) == Len(v) > 0 /\ \A i \in 1..Len(v) : v[i] \in DecimalDigits

DigitValue(c) ==
    CASE c = "0" -> 0 [] c = "1" -> 1 [] c = "2" -> 2 [] c = "3" -> 3
      [] c = "4" -> 4 [] c = "5" -> 5 [] c = "6" -> 6 [] c = "7" -> 7
      [] c = "8" -> 8 [] c = "9" -> 9

\* int(v) of a digit string: leading zeros do not count
RECURSIVE int(_)
int(v) ==
    IF v = <<>> THEN 0
    ELSE 10 * int(SubSeq(v, 1, Len(v) - 1)) + DigitValue(v[Len(v)])

\* mutation: the upper end of the port range is one too high
validate_tunnel_port_off_by_one(v, values) ==
    IF values.tunnel_protocol = None THEN v
    ELSE IF v \in {NoPort, <<>>} THEN PROTOCOL_DEFAULT_PORTS[values.tunnel_protocol]
    ELSE IF ~isdigit(v) THEN ValueError
    ELSE IF ~(1 <= int(v) /\ int(v) <= 65536) THEN ValueError
    ELSE v

\* values holds the fields validated so far; a tunnel_protocol that failed its
\* validator is not among them (None here)
validate_tunnel_port(v, values) ==
    IF values.tunnel_protocol = None THEN v
    ELSE IF v \in {NoPort, <<>>} THEN PROTOCOL_DEFAULT_PORTS[values.tunnel_protocol]
    ELSE IF ~isdigit(v) THEN ValueError
    ELSE IF ~(1 <= int(v) /\ int(v) <= 65535) THEN ValueError
    ELSE v

\* TunnelEncapsulation(tunnel_protocol=..., tunnel_port=...): the fields are
\* validated in the order of their declaration.  Whether a field validator is
\* run for a port that was not given is up to the pydantic release in use
\* (runs_for_none); a port that is not validated stays None.
TunnelEncapsulation(given, runs_for_none) ==
    LET protocol_ok == validate_tunnel_protocol(given.tunnel_protocol)
        values == [tunnel_protocol |->
                      IF protocol_ok THEN given.tunnel_protocol ELSE None]
        port == IF given.tunnel_port = NoPort /\ ~runs_for_none THEN NoPort
                ELSE validate_tunnel_port(given.tunnel_port, values)
    IN  IF ~protocol_ok \/ port = ValueError
        THEN [error |-> TRUE, tunnel_protocol |-> None, tunnel_port |-> NoPort]
        ELSE [error |-> FALSE, tunnel_protocol |-> given.tunnel_protocol,
              tunnel_port |-> port]

allowed_values ==
    { "dns", "drop", "flow", "flows-to-world", "http", "icmp", "kafka",
      "port-distribution", "tcp" }

validate_metrics(v) == \A i \in 1..Len(v) : v[i] \in allowed_values

configure_hubble_metrics(m) ==
    LET values == config.enable_hubble_metrics
        items == Split(values)
    IN  IF values = <<>> THEN m
        ELSE IF validate_metrics(items)
             THEN SetStored([m EXCEPT !.hubble_metrics = items],
                            "unallowed_metrics", FALSE)
             ELSE Raise(m, "ValueError")

\* one call of the manifest backend with outcome o
Backend(m, op, set, o) ==
    LET m1 == Log(m, op, set, Result(o))
    IN  IF o = "ok" THEN m1 ELSE Raise(m1, o)

\* mutation: a failed Hubble removal clears hubble_configured all the same
configure_hubble_forgets_on_failure(m, hub) ==
    IF config.enable_hubble
    THEN LET m1 == SetStatus(m, MaintenanceStatus("Applying Hubble resources."))
             m2 == configure_hubble_metrics(m1)
             m3 == IF m2.raised = "" THEN Backend(m2, "apply", "hubble", hub) ELSE m2
         IN  IF m3.raised = ""
             THEN SetStored(m3, "hubble_configured", TRUE)
             ELSE IF m3.raised \in ClientErrors
             THEN ops_wait_for(Raise(m3, ""), "Waiting to retry Hubble configuration.")
             ELSE IF m3.raised = "ValueError"
             THEN SetStored(
                      SetStatus(Raise(m3, ""),
                          BlockedStatus("Hubble Metrics should only contain valid metrics values.")),
                      "unallowed_metrics", TRUE)
             ELSE m3
    ELSE IF m.stored.hubble_configured
    THEN LET m1 == SetStatus(m, MaintenanceStatus("Removing Hubble resources."))
             m2 == Backend(m1, "delete", "hubble", hub)
         IN  IF m2.raised = ""
             THEN SetStored(m2, "hubble_configured", FALSE)
             ELSE IF m2.raised \in ClientErrors
             THEN ops_wait_for(SetStored(Raise(m2, ""), "hubble_configured", FALSE),
                               "Waiting to retry Hubble removal.")
             ELSE m2
    ELSE m

\* mutation: the Hubble resources are removed whether or not they were applied
configure_hubble_always_deletes(m, hub) ==
    IF config.enable_hubble
    THEN LET m1 == SetStatus(m, MaintenanceStatus("Applying Hubble resources."))
             m2 == configure_hubble_metrics(m1)
             m3 == IF m2.raised = "" THEN Backend(m2, "apply", "hubble", hub) ELSE m2
         IN  IF m3.raised = ""
             THEN SetStored(m3, "hubble_configured", TRUE)
             ELSE IF m3.raised \in ClientErrors
             THEN ops_wait_for(Raise(m3, ""), "Waiting to retry Hubble configuration.")
             ELSE IF m3.raised = "ValueError"
             THEN SetStored(
                      SetStatus(Raise(m3, ""),
                          BlockedStatus("Hubble Metrics should only contain valid metrics values.")),
                      "unallowed_metrics", TRUE)
             ELSE m3
    ELSE LET m1 == SetStatus(m, MaintenanceStatus("Removing Hubble resources."))
             m2 == Backend(m1, "delete", "hubble", hub)
         IN  IF m2.raised = ""
             THEN SetStored(m2, "hubble_configured", FALSE)
             ELSE IF m2.raised \in ClientErrors
             THEN ops_wait_for(Raise(m2, ""), "Waiting to retry Hubble removal.")
             ELSE m2

configure_hubble(m, hub) ==
    IF config.enable_hubble
    THEN LET m1 == SetStatus(m, MaintenanceStatus("Applying Hubble resources."))
             m2 == configure_hubble_metrics(m1)
             m3 == IF m2.raised = "" THEN Backend(m2, "apply", "hubble", hub) ELSE m2
         IN  IF m3.raised = ""
             THEN SetStored(m3, "hubble_configured", TRUE)
             ELSE IF m3.raised \in ClientErrors
             THEN ops_wait_for(Raise(m3, ""), "Waiting to retry Hubble configuration.")
             ELSE IF m3.raised = "ValueError"
             THEN SetStored(
                      SetStatus(Raise(m3, ""),
                          BlockedStatus("Hubble Metrics should only contain valid metrics values.")),
                      "unallowed_metrics", TRUE)
             ELSE m3
    ELSE IF m.stored.hubble_configured
    THEN LET m1 == SetStatus(m, MaintenanceStatus("Removing Hubble resources."))
             m2 == Backend(m1, "delete", "hubble", hub)
         IN  IF m2.raised = ""
             THEN SetStored(m2, "hubble_configured", FALSE)
             ELSE IF m2.raised \in ClientErrors
             THEN ops_wait_for(Raise(m2, ""), "Waiting to retry Hubble removal.")
             ELSE m2
    ELSE m

\* mutation: every exception of the CNI apply is turned into the retry status
configure_cilium_cni_catches_all(m, cil) ==
    LET m1 == SetStatus(m, MaintenanceStatus("Applying Cilium resources."))
        m2 == [m1 EXCEPT !.cni_args =
                  [service_cidr |-> get_service_cidr(m1.cni),
                   hubble_metrics |-> m1.hubble_metrics,
                   tunnel_protocol |-> config.tunnel_protocol,
                   applied |-> TRUE]]
        m3 == Backend(m2, "apply", "cilium", cil)
    IN  IF m3.raised # ""
        THEN ops_wait_for(Raise(m3, ""), "Waiting to retry Cilium configuration.")
        ELSE m3

configure_cilium_cni(m, cil) ==
    LET m1 == SetStatus(m, MaintenanceStatus("Applying Cilium resources."))
        m2 == [m1 EXCEPT !.cni_args =
                  [service_cidr |-> get_service_cidr(m1.cni),
                   hubble_metrics |-> m1.hubble_metrics,
                   tunnel_protocol |-> config.tunnel_protocol,
                   applied |-> TRUE]]
        m3 == Backend(m2, "apply", "cilium", cil)
    IN  IF m3.raised \in ClientErrors
        THEN ops_wait_for(Raise(m3, ""), "Waiting to retry Cilium configuration.")
        ELSE m3

\* mutation: the CNI manifests are applied before the Hubble step
configure_cilium_cni_first(m, hub, cil) ==
    LET m0 == Log(m, "enter", "_configure_cilium", "")
        m1 == SetStored(m0, "cilium_configured", FALSE)
        kube == get_kubeconfig_status(m1.cni)
        m2 == configure_cilium_cni(m1, cil)
        m3 == IF m2.raised = "" THEN configure_hubble(m2, hub) ELSE m2
        m4 == IF m3.raised = "" THEN SetStored(m3, "cilium_configured", TRUE) ELSE m3
        m5 == IF kube THEN m4 ELSE ops_wait_for(m1, "Waiting for Kubernetes API")
    IN  [m5 EXCEPT !.pass =
            [ ran |-> TRUE, kube |-> kube, returned |-> (m5.raised = ""),
              stored |-> m5.stored, status |-> m5.status,
              hubble_metrics |-> m5.hubble_metrics, cni_args |-> m5.cni_args ]]

\* the snapshot taken when the convergence pass is left
EndPass(m, kube) ==
    [m EXCEPT !.pass =
        [ ran |-> TRUE, kube |-> kube, returned |-> (m.raised = ""),
          stored |-> m.stored, status |-> m.status,
          hubble_metrics |-> m.hubble_metrics, cni_args |-> m.cni_args ]]

configure_cilium(m, hub, cil) ==
    LET m0 == Log(m, "enter", "_configure_cilium", "")
        m1 == SetStored(m0, "cilium_configured", FALSE)
    IN  IF ~get_kubeconfig_status(m1.cni)
        THEN EndPass(ops_wait_for(m1, "Waiting for Kubernetes API"), FALSE)
        ELSE LET m2 == configure_hubble(m1, hub)
                 m3 == IF m2.raised = "" THEN configure_cilium_cni(m2, cil) ELSE m2
                 m4 == IF m3.raised = ""
                       THEN SetStored(m3, "cilium_configured", TRUE) ELSE m3
             IN  EndPass(m4, TRUE)

RECURSIVE Publish(_, _, _, _)
Publish(m, n, cidr, file) ==
    IF n = 0 THEN m ELSE Publish(Log(m, "publish", cidr, file), n - 1, cidr, file)

configure_cni_relation(m) ==
    LET m0 == Log(m, "enter", "_configure_cni_relation", "")
        m1 == SetStatus(m0, MaintenanceStatus("Configuring CNI relation"))
    IN  Publish(m1, Len(m1.cni), config.cluster_pool_ipv4_cidr, "05-cilium.conf")

\* the two systemctl calls of one request; either of them may fail, and then
\* the status is not written and is-active keeps its answer
manage_port_forward_service(m, enable, sys) ==
    LET verb == IF enable THEN "enable+start" ELSE "disable+stop"
    IN  IF sys = "ok"
        THEN SetStatus(Log([m EXCEPT !.service.active = enable], "systemctl", verb, "ok"),
                       WaitingStatus("Waiting Hubble port-forward service."))
        ELSE Log(m, "systemctl", verb, "failed")

\* mutation: the CLI install leaves the port-forward service alone
install_cli_resources_keeps_service(m, sys, res) ==
    LET m1 == Log(m, "enter", "_install_cli_resources", "")
    IN  IF res = "ok" THEN m1
        ELSE IF res = "ModelError"
        THEN SetStatus(m1, BlockedStatus("Unable to claim the CLI resources."))
        ELSE IF res = "NameError"
        THEN SetStatus(m1, BlockedStatus("CLI resources missing."))
        ELSE SetStatus(m1, BlockedStatus("Error unpacking CLI binaries."))

install_cli_resources(m, sys, res) ==
    LET m0 == Log(m, "enter", "_install_cli_resources", "")
        m1 == manage_port_forward_service(m0, FALSE, sys)
    IN  IF res = "ok" THEN m1
        ELSE IF res = "ModelError"
        THEN SetStatus(m1, BlockedStatus("Unable to claim the CLI resources."))
        ELSE IF res = "NameError"
        THEN SetStatus(m1, BlockedStatus("CLI resources missing."))
        ELSE SetStatus(m1, BlockedStatus("Error unpacking CLI binaries."))

\* mutation: enabling the service leaves hubble_mismatch_config as it is
on_port_forward_hubble_keeps_mismatch(m, sys) ==
    LET m0 == Log(m, "enter", "_on_port_forward_hubble", "")
    IN  IF config.port_forward_hubble
        THEN IF config.enable_hubble
             THEN manage_port_forward_service(m0, TRUE, sys)
             ELSE SetStored(m0, "hubble_mismatch_config", TRUE)
        ELSE m0

\* mutation: with port-forward-hubble off the service is disabled here
on_port_forward_hubble_disables(m, sys) ==
    LET m0 == Log(m, "enter", "_on_port_forward_hubble", "")
    IN  IF config.port_forward_hubble
        THEN IF config.enable_hubble
             THEN SetStored(manage_port_forward_service(m0, TRUE, sys),
                            "hubble_mismatch_config", FALSE)
             ELSE SetStored(m0, "hubble_mismatch_config", TRUE)
        ELSE manage_port_forward_service(m0, FALSE, sys)

on_port_forward_hubble(m, sys) ==
    LET m0 == Log(m, "enter", "_on_port_forward_hubble", "")
    IN  IF config.port_forward_hubble
        THEN IF config.enable_hubble
             THEN SetStored(manage_port_forward_service(m0, TRUE, sys),
                            "hubble_mismatch_config", FALSE)
             ELSE SetStored(m0, "hubble_mismatch_config", TRUE)
        ELSE m0

\* mutation: the return code of is-active is read the wrong way round
check_port_forward_service_inverted(m) ==
    IF m.stored.hubble_mismatch_config
    THEN SetStatus(m, BlockedStatus("Enable Hubble to use Hubble port-forward service."))
    ELSE LET rc == get_service_status(m)
             waiting_msg == "Waiting Hubble port-forward service."
         IN  IF config.port_forward_hubble
             THEN IF rc = 0 THEN SetStatus(m, WaitingStatus(waiting_msg)) ELSE m
             ELSE IF rc # 0 THEN SetStatus(m, WaitingStatus(waiting_msg)) ELSE m

\* mutation: the mismatch flag is not looked at
check_port_forward_service_ignores_mismatch(m) ==
    LET rc == get_service_status(m)
        waiting_msg == "Waiting Hubble port-forward service."
    IN  IF config.port_forward_hubble
        THEN IF rc # 0 THEN SetStatus(m, WaitingStatus(waiting_msg)) ELSE m
        ELSE IF rc = 0 THEN SetStatus(m, WaitingStatus(waiting_msg)) ELSE m

check_port_forward_service(m) ==
    IF m.stored.hubble_mismatch_config
    THEN SetStatus(m, BlockedStatus("Enable Hubble to use Hubble port-forward service."))
    ELSE LET rc == get_service_status(m)
             waiting_msg == "Waiting Hubble port-forward service."
         IN  IF config.port_forward_hubble
             THEN IF rc # 0 THEN SetStatus(m, WaitingStatus(waiting_msg)) ELSE m
             ELSE IF rc = 0 THEN SetStatus(m, WaitingStatus(waiting_msg)) ELSE m

\* mutation: the Hubble check of the status recompute is missing
set_active_status_without_hubble(m) ==
    LET m0 == Log([m EXCEPT !.sas_before = m.status], "enter", "_set_active_status", "")
    IN  IF ~m0.stored.cilium_configured THEN m0
        ELSE IF m0.stored.unallowed_metrics THEN m0
        ELSE LET m1 == SetStatus(m0, ActiveStatus("Ready"))
                 m2 == Log(m1, "set_workload_version", "", "")
             IN  check_port_forward_service(m2)

set_active_status(m) ==
    LET m0 == Log([m EXCEPT !.sas_before = m.status], "enter", "_set_active_status", "")
    IN  IF ~m0.stored.cilium_configured THEN m0
        ELSE IF config.enable_hubble /\ ~m0.stored.hubble_configured THEN m0
        ELSE IF m0.stored.unallowed_metrics THEN m0
        ELSE LET m1 == SetStatus(m0, ActiveStatus("Ready"))
                 m2 == Log(m1, "set_workload_version", "", "")
             IN  check_port_forward_service(m2)

(***************************************************************************)
(* Grafana Agent                                                           *)
(***************************************************************************)
\* what _deploy_grafana_agent and _remove_grafana_agent can end with: the
\* lightkube client raises ApiError or httpx's HTTPError
GrafanaErrors == {"ApiError", "HTTPError"}
GrafanaOutcomes == {"ok"} \cup GrafanaErrors \cup {"Exception"}

GrafanaStatus(action_verb) ==
    MaintenanceStatus(IF action_verb = "Applying" THEN "Applying Grafana Agent"
                      ELSE "Removing Grafana Agent")

\* mutation: the status is recomputed whether the operation failed or not
handle_grafana_agent_always_recomputes(m, leader, action_verb, action_noun, op) ==
    LET m0 == Log(m, "is_leader", BoolStr(leader), "")
    IN  IF ~leader THEN m0
        ELSE LET m1 == SetStatus(m0, GrafanaStatus(action_verb))
             IN  IF ~get_kubeconfig_status(m1.cni)
                 THEN Log(SetStatus(m1, WaitingStatus("Waiting for Kubernetes API")),
                          "defer", "", "")
                 ELSE LET m2 == Log(m1, "grafana", action_noun, op)
                      IN  IF op = "ok" THEN set_active_status(m2)
                          ELSE IF op \in GrafanaErrors
                          THEN set_active_status(Log(m2, "defer", "", ""))
                          ELSE Raise(m2, op)

handle_grafana_agent(m, leader, action_verb, action_noun, op) ==
    LET m0 == Log(m, "is_leader", BoolStr(leader), "")
    IN  IF ~leader THEN m0
        ELSE LET m1 == SetStatus(m0, GrafanaStatus(action_verb))
             IN  IF ~get_kubeconfig_status(m1.cni)
                 THEN Log(SetStatus(m1, WaitingStatus("Waiting for Kubernetes API")),
                          "defer", "", "")
                 ELSE LET m2 == Log(m1, "grafana", action_noun, op)
                      IN  IF op = "ok" THEN set_active_status(m2)
                          ELSE IF op \in GrafanaErrors
                          THEN Log(m2, "defer", "", "")
                          ELSE Raise(m2, op)

\* endpoints: whether the remote-write consumer knows an endpoint
on_remote_write_changed(m, endpoints, leader, op) ==
    IF endpoints THEN handle_grafana_agent(m, leader, "Applying", "apply", op)
    ELSE m

on_remote_write_departed(m, leader, op) ==
    handle_grafana_agent(m, leader, "Removing", "remove", op)

(***************************************************************************)
(* Trigger handlers                                                        *)
(***************************************************************************)
\* mutation: the port-forward service is reconciled before the convergence pass
on_config_changed_port_forward_first(m, hub, cil, sys1, res, sys2) ==
    LET m1 == on_port_forward_hubble(configure_cni_relation(m), sys2)
        m2 == configure_cilium(m1, hub, cil)
    IN  IF m2.raised # "" THEN m2
        ELSE set_active_status(install_cli_resources(m2, sys1, res))

\* mutation: the CLI resources are installed only after a pass without failure
on_config_changed_install_after_success(m, hub, cil, sys1, res, sys2) ==
    LET m1 == configure_cni_relation(m)
        m2 == configure_cilium(m1, hub, cil)
        ok == get_kubeconfig_status(m.cni) /\ hub = "ok" /\ cil = "ok"
        m3 == IF ok THEN install_cli_resources(m2, sys1, res) ELSE m2
    IN  IF m2.raised # "" THEN m2
        ELSE set_active_status(on_port_forward_hubble(m3, sys2))

on_config_changed(m, hub, cil, sys1, res, sys2) ==
    LET m1 == configure_cni_relation(m)
        m2 == configure_cilium(m1, hub, cil)
    IN  IF m2.raised # "" THEN m2
        ELSE set_active_status(
                 on_port_forward_hubble(install_cli_resources(m2, sys1, res), sys2))

on_cni_relation_changed(m, hub, cil) ==
    LET m1 == configure_cilium(m, hub, cil)
    IN  IF m1.raised # "" THEN m1 ELSE set_active_status(m1)

\* mutation: a joined relation starts a convergence pass
on_cni_relation_joined_converging(m) ==
    LET m1 == configure_cilium(configure_cni_relation(m), "ok", "ok")
    IN  IF m1.raised # "" THEN m1 ELSE set_active_status(m1)

on_cni_relation_joined(m) == set_active_status(configure_cni_relation(m))

on_update_status(m) == set_active_status(m)

on_upgrade_charm(m, sys, res) ==
    install_cli_resources(SetStored(m, "cilium_configured", FALSE), sys, res)

\* _install_service copies the unit file and reloads systemd; its errors are
\* only logged and no engine state is touched
on_install(m) == Log(m, "enter", "_install_service", PORT_FORWARD_SERVICE)

(***************************************************************************)
(* History of the last handler and of the last convergence pass            *)
(***************************************************************************)
\* the flags a handler can find and read when it starts
Pre == [ hubble_configured |-> stored.hubble_configured,
         hubble_mismatch_config |-> stored.hubble_mismatch_config,
         unallowed_metrics |-> stored.unallowed_metrics ]

Healthy(log) ==
    \A i \in 1..Len(log) : log[i][1] \in {"apply", "delete"} => log[i][3] = "ok"

HubbleApplyFailed(log) ==
    \E i \in 1..Len(log) : log[i] = <<"apply", "hubble", "client-error">>

NoFirst == [stored |-> NoPass.stored, status |-> NoStatus, cni_args |-> NoArgs]

NoPassHistory ==
    [ ran |-> FALSE, kube |-> FALSE, returned |-> FALSE,
      stored |-> NoPass.stored, status |-> NoStatus, hubble_metrics |-> <<>>,
      cni_args |-> NoArgs, healthy |-> FALSE, hubble_failed |-> FALSE,
      clean |-> FALSE, repeat |-> FALSE, first |-> NoFirst,
      after_hubble_failure |-> FALSE ]

\* the pass history after a handler that ends in machine m
PassAfter(m) ==
    IF m.pass.ran
    THEN LET p == m.pass
             healthy == Healthy(m.log)
             again == pass.clean /\ pass.healthy /\ healthy /\ p.returned
         IN  [ ran |-> TRUE, kube |-> p.kube, returned |-> p.returned,
               stored |-> p.stored, status |-> p.status,
               hubble_metrics |-> p.hubble_metrics, cni_args |-> p.cni_args,
               healthy |-> healthy,
               hubble_failed |-> HubbleApplyFailed(m.log) /\ ~stored.hubble_configured,
               clean |-> p.returned /\ m.stored = p.stored
                           /\ m.hubble_metrics = p.hubble_metrics,
               repeat |-> again,
               first |-> IF again
                         THEN [stored |-> pass.stored, status |-> pass.status,
                               cni_args |-> pass.cni_args]
                         ELSE NoFirst,
               after_hubble_failure |-> pass.clean /\ pass.hubble_failed ]
    ELSE NoPassHistory

Finish(name, m) ==
    /\ stored' = m.stored
    /\ status' = m.status
    /\ hubble_metrics' = m.hubble_metrics
    /\ service' = m.service
    /\ cni' = m.cni
    /\ UNCHANGED config
    /\ last' = [ handler |-> name, log |-> m.log, raised |-> m.raised,
                 pre |-> Pre, sas_before |-> m.sas_before,
                 tick |-> IF name = "update_status" THEN ~last.tick ELSE FALSE ]
    /\ pass' = PassAfter(m)

\* a change of the environment: no handler ran
Environment ==
    /\ last' = [ handler |-> "environment", log |-> <<>>, raised |-> "",
                 pre |-> Pre, sas_before |-> NoStatus, tick |-> FALSE ]
    /\ pass' = NoPassHistory

(***************************************************************************)
(* Inputs that can make a difference in the current state                  *)
(***************************************************************************)
HubbleCallDue ==
    /\ get_kubeconfig_status(cni)
    /\ \/ config.enable_hubble
          /\ validate_metrics(Split(config.enable_hubble_metrics))
       \/ ~config.enable_hubble /\ stored.hubble_configured

HubbleOutcomes == IF HubbleCallDue THEN BackendOutcomes ELSE {"ok"}

CiliumOutcomes == IF get_kubeconfig_status(cni) THEN BackendOutcomes ELSE {"ok"}

EnableOutcomes ==
    IF config.port_forward_hubble /\ config.enable_hubble
    THEN SystemctlOutcomes ELSE {"ok"}

Faults(outcomes) == Cardinality({i \in 1..Len(outcomes) : outcomes[i] # "ok"})

(***************************************************************************)
(* Actions                                                                 *)
(***************************************************************************)
ConfigChanged ==
    \E hub \in HubbleOutcomes, cil \in CiliumOutcomes, sys1 \in SystemctlOutcomes,
       res \in ResourceOutcomes, sys2 \in EnableOutcomes :
        /\ Faults(<<hub, cil, sys1, res, sys2>>) <= MaxFaults
        /\ Finish("config_changed", on_config_changed(Machine, hub, cil, sys1, res, sys2))

CniRelationChanged ==
    /\ cni # <<>>
    /\ \E hub \in HubbleOutcomes, cil \in CiliumOutcomes :
        Finish("cni_relation_changed", on_cni_relation_changed(Machine, hub, cil))

CniRelationJoined ==
    /\ cni # <<>>
    /\ Finish("cni_relation_joined", on_cni_relation_joined(Machine))

UpdateStatus == Finish("update_status", on_update_status(Machine))

UpgradeCharm ==
    \E sys \in SystemctlOutcomes, res \in ResourceOutcomes :
        Finish("upgrade_charm", on_upgrade_charm(Machine, sys, res))

Install ==
    /\ last.handler = "start"
    /\ Finish("install", on_install(Machine))

\* the operator changes the configuration
SetConfig ==
    /\ \E c \in Configs :
          /\ Cardinality({k \in DOMAIN config : c[k] # config[k]}) = 1
          /\ config' = c
    /\ UNCHANGED <<stored, status, hubble_metrics, service, cni>>
    /\ Environment

\* remote units join, leave or write their relation data
SetRelationData ==
    /\ \E r \in CniChoices \ {cni} : cni' = r
    /\ UNCHANGED <<stored, status, hubble_metrics, service, config>>
    /\ Environment

\* the port-forward process dies or is started outside of the charm
ServiceChanges ==
    /\ service' = [service EXCEPT !.active = ~@]
    /\ UNCHANGED <<stored, status, hubble_metrics, config, cni>>
    /\ Environment

\* the next hook runs in a new process: __init__ builds an empty metric list
\* and set_default keeps the persisted flags
Reinit ==
    /\ hubble_metrics # <<>>
    /\ hubble_metrics' = <<>>
    /\ UNCHANGED <<stored, status, service, config, cni>>
    /\ Environment

Init ==
    /\ stored = [cilium_configured |-> FALSE, hubble_configured |-> FALSE,
                 hubble_mismatch_config |-> FALSE, unallowed_metrics |-> FALSE]
    /\ status = MaintenanceStatus("")     \* no handler has written a status yet
    /\ hubble_metrics = <<>>
    /\ service = [active |-> FALSE]
    /\ config \in Configs
    /\ cni = <<>>
    /\ last = [ handler |-> "start", log |-> <<>>, raised |-> "",
                pre |-> Pre, sas_before |-> NoStatus, tick |-> FALSE ]
    /\ pass = NoPassHistory

Next ==
    \/ ConfigChanged
    \/ CniRelationChanged
    \/ CniRelationJoined
    \/ UpdateStatus
    \/ UpgradeCharm
    \/ Install
    \/ SetConfig
    \/ SetRelationData
    \/ ServiceChanges
    \/ Reinit

Spec == Init /\ [][Next]_vars

\* Juju fires the update-status hook periodically for as long as the unit lives
FairSpec == Spec /\ WF_vars(UpdateStatus)

(***************************************************************************)
(* The charm under changes of the tunnel protocol, with Hubble and the     *)
(* port-forward service switched off                                       *)
(***************************************************************************)
SetTunnelProtocol ==
    /\ \E v \in TunnelValues \ {config.tunnel_protocol} :
          config' = [config EXCEPT !.tunnel_protocol = v]
    /\ UNCHANGED <<stored, status, hubble_metrics, service, cni>>
    /\ Environment

TunnelInit ==
    /\ stored = [cilium_configured |-> FALSE, hubble_configured |-> FALSE,
                 hubble_mismatch_config |-> FALSE, unallowed_metrics |-> FALSE]
    /\ status = MaintenanceStatus("")
    /\ hubble_metrics = <<>>
    /\ service = [active |-> FALSE]
    /\ config \in TunnelConfigs
    /\ cni = <<>>
    /\ last = [ handler |-> "start", log |-> <<>>, raised |-> "",
                pre |-> Pre, sas_before |-> NoStatus, tick |-> FALSE ]
    /\ pass = NoPassHistory

TunnelNext ==
    \/ ConfigChanged
    \/ UpdateStatus
    \/ SetTunnelProtocol
    \/ SetRelationData
    \/ ServiceChanges

TunnelSpec == TunnelInit /\ [][TunnelNext]_vars

(***************************************************************************)
(* The charm with a remote-write relation, under a configuration that      *)
(* does not change                                                         *)
(***************************************************************************)
\* the operation is only reached on the leader with a kubeconfig
GrafanaInputs(leader) ==
    IF leader /\ get_kubeconfig_status(cni) THEN GrafanaOutcomes ELSE {"ok"}

RemoteWriteChanged ==
    \E endpoints \in BOOLEAN, leader \in BOOLEAN :
        \E op \in (IF endpoints THEN GrafanaInputs(leader) ELSE {"ok"}) :
            Finish("remote_write_changed",
                   on_remote_write_changed(Machine, endpoints, leader, op))

RemoteWriteDeparted ==
    \E leader \in BOOLEAN : \E op \in GrafanaInputs(leader) :
        Finish("remote_write_departed", on_remote_write_departed(Machine, leader, op))

GrafanaNext ==
    \/ RemoteWriteChanged
    \/ RemoteWriteDeparted
    \/ ConfigChanged
    \/ CniRelationChanged
    \/ CniRelationJoined
    \/ UpdateStatus
    \/ UpgradeCharm
    \/ SetRelationData
    \/ ServiceChanges
    \/ Reinit

GrafanaSpec == Init /\ [][GrafanaNext]_vars

(***************************************************************************)
(* The pure functions applied to inputs of bounded size: config holds the  *)
(* keyword arguments of TunnelEncapsulation, cni the relations, and the    *)
(* log of the last step what the function returned                         *)
(***************************************************************************)
PortChars == {"0", "1", "3", "5", "6", "a"}

PortStrings == UNION { [1..n -> PortChars] : n \in 0..MaxPortLen }

TunnelInputs ==
    [ tunnel_protocol : TunnelValues, tunnel_port : {NoPort} \cup PortStrings ]

UnitInputs == {NotReady, EmptyHash, Ready}

RelationInputs ==
    { Relation(u) : u \in UNION { [1..n -> UnitInputs] : n \in 0..MaxUnits } }

CniInputs == UNION { [1..n -> RelationInputs] : n \in 0..MaxRelations }

Returned(name, a, b) ==
    /\ last' = [last EXCEPT !.handler = name, !.log = << <<"return", a, b>> >>]
    /\ UNCHANGED <<stored, status, hubble_metrics, service, config, cni, pass>>

ApplyTunnelEncapsulation ==
    /\ last.handler = "start"
    /\ cni = <<>>
    /\ \E runs_for_none \in BOOLEAN :
          LET t == TunnelEncapsulation(config, runs_for_none)
          IN  Returned("TunnelEncapsulation",
                       IF t.error THEN "ValidationError" ELSE t.tunnel_protocol,
                       t.tunnel_port)

ApplyGetKubeconfigStatus ==
    /\ last.handler = "start"
    /\ config.tunnel_port = NoPort
    /\ Returned("_get_kubeconfig_status", BoolStr(get_kubeconfig_status(cni)), "")

FunctionInit ==
    /\ stored = [cilium_configured |-> FALSE, hubble_configured |-> FALSE,
                 hubble_mismatch_config |-> FALSE, unallowed_metrics |-> FALSE]
    /\ status = MaintenanceStatus("")
    /\ hubble_metrics = <<>>
    /\ service = [active |-> FALSE]
    /\ \/ config \in TunnelInputs /\ cni = <<>>
       \/ config = [tunnel_protocol |-> "vxlan", tunnel_port |-> NoPort]
          /\ cni \in CniInputs
    /\ last = [ handler |-> "start", log |-> <<>>, raised |-> "",
                pre |-> Pre, sas_before |-> NoStatus, tick |-> FALSE ]
    /\ pass = NoPassHistory

FunctionNext ==
    \/ ApplyTunnelEncapsulation
    \/ ApplyGetKubeconfigStatus

FunctionSpec == FunctionInit /\ [][FunctionNext]_vars

(***************************************************************************)
(* Vocabulary of the properties                                            *)
(***************************************************************************)
Logged(e) == \E i \in 1..Len(last.log) : last.log[i] = e

Called(op, set) ==
    \E i \in 1..Len(last.log) : last.log[i][1] = op /\ last.log[i][2] = set

BackendCalled ==
    \E i \in 1..Len(last.log) : last.log[i][1] \in {"apply", "delete"}

IndexOf(e) == CHOOSE i \in 1..Len(last.log) : last.log[i] = e

\* the events of the last handler after event e
LogAfter(e) == SubSeq(last.log, IndexOf(e) + 1, Len(last.log))

NoKubeconfigHash(c) ==
    \A i \in 1..Len(c) : \A j \in 1..Len(c[i].units) :
        c[i].units[j].kubeconfig_hash \in {None, ""}

MetricsValid == validate_metrics(Split(config.enable_hubble_metrics))

\* a sub-step of the last pass failed: a backend client error or a rejected
\* metrics list
PassFailed ==
    \/ Logged(<<"apply", "hubble", "client-error">>)
    \/ Logged(<<"delete", "hubble", "client-error">>)
    \/ Logged(<<"apply", "cilium", "client-error">>)
    \/ Logged(<<"stored", "unallowed_metrics", "True">>)

WaitingForApi == WaitingStatus("Waiting for Kubernetes API")
RetryCilium == WaitingStatus("Waiting to retry Cilium configuration.")
RetryHubble == WaitingStatus("Waiting to retry Hubble configuration.")
BadMetrics == BlockedStatus("Hubble Metrics should only contain valid metrics values.")
Ready_ == ActiveStatus("Ready")

(***************************************************************************)
(* C1.  cilium_configured is reset to false at the start of every          *)
(* convergence pass, and it is true when the pass returns only if the       *)
(* kubeconfig was there and no sub-step of the pass failed.                 *)
(* The code goes on after a failed sub-step and sets the flag.             *)
(***************************************************************************)
C1_ConfiguredOnlyAfterCleanPass ==
    pass.ran =>
        /\ last.log[IndexOf(<<"enter", "_configure_cilium", "">>) + 1]
               = <<"stored", "cilium_configured", "False">>
        /\ (pass.returned /\ pass.stored.cilium_configured)
               => (pass.kube /\ ~PassFailed)

(***************************************************************************)
(* C2.  A pass that finds no non-empty kubeconfig-hash on any unit of any  *)
(* cni relation calls neither apply nor delete, sets a Waiting status,     *)
(* leaves hubble_configured as it was and returns with                     *)
(* cilium_configured = false.                                              *)
(***************************************************************************)
C2_NoKubeconfigNoBackendCall ==
    (pass.ran /\ NoKubeconfigHash(cni)) =>
        /\ ~BackendCalled
        /\ pass.returned
        /\ pass.status = WaitingForApi
        /\ pass.stored.hubble_configured = last.pre.hubble_configured
        /\ ~pass.stored.cilium_configured

C2_Witness ==
    /\ pass.ran
    /\ NoKubeconfigHash(cni)
    /\ \E i \in 1..Len(cni) : Len(cni[i].units) > 0
    /\ last.pre.hubble_configured

(***************************************************************************)
(* C3.  When the CNI apply raises a client error the pass ends in           *)
(* Waiting("Waiting to retry Cilium configuration."), cilium_configured     *)
(* stays false and the status recompute of the same handler does not       *)
(* report the unit Active.                                                 *)
(***************************************************************************)
C3_CniFailureKeepsWaiting ==
    (pass.ran /\ Logged(<<"apply", "cilium", "client-error">>)) =>
        /\ pass.status = RetryCilium
        /\ ~pass.stored.cilium_configured
        /\ ~stored.cilium_configured
        /\ status # Ready_
        /\ last.handler = "cni_relation_changed" => status = RetryCilium

(***************************************************************************)
(* C4.  Independent retry: a pass whose CNI apply succeeds and whose       *)
(* Hubble apply raises a client error (hubble_configured false before)     *)
(* ends with the Hubble retry status, cilium_configured true and           *)
(* hubble_configured false; the next pass, with a healthy backend, calls   *)
(* the Hubble apply again and sets hubble_configured.                      *)
(***************************************************************************)
C4_IndependentRetry ==
    /\ ( /\ pass.ran
         /\ Logged(<<"apply", "hubble", "client-error">>)
         /\ Logged(<<"apply", "cilium", "ok">>)
         /\ ~last.pre.hubble_configured )
       => ( /\ pass.status = RetryHubble
            /\ pass.stored.cilium_configured
            /\ ~pass.stored.hubble_configured )
    /\ ( pass.ran /\ pass.after_hubble_failure /\ pass.healthy /\ pass.returned )
       => ( Logged(<<"apply", "hubble", "ok">>) /\ pass.stored.hubble_configured )

(***************************************************************************)
(* C5.  Status priority.  A status recompute writes Active("Ready") and    *)
(* publishes the workload version exactly when cilium_configured holds,    *)
(* Hubble is disabled or configured, and unallowed_metrics is false; in    *)
(* every other combination it writes no status and no version.  After the  *)
(* write only the port-forward check can replace Active.                   *)
(***************************************************************************)
ActiveDue ==
    /\ stored.cilium_configured
    /\ ~config.enable_hubble \/ stored.hubble_configured
    /\ ~stored.unallowed_metrics

SasRan == Logged(<<"enter", "_set_active_status", "">>)

SasLog == LogAfter(<<"enter", "_set_active_status", "">>)

SasWrote(e) == \E i \in 1..Len(SasLog) : SasLog[i] = e

C5_StatusPriority ==
    SasRan =>
        /\ SasWrote(<<"status", "active", "Ready">>) <=> ActiveDue
        /\ SasWrote(<<"set_workload_version", "", "">>) <=> ActiveDue
        /\ ~ActiveDue =>
              /\ status = last.sas_before
              /\ \A i \in 1..Len(SasLog) : SasLog[i][1] # "status"
        /\ ActiveDue =>
              \/ status = Ready_
              \/ status = BlockedStatus("Enable Hubble to use Hubble port-forward service.")
              \/ status = WaitingStatus("Waiting Hubble port-forward service.")

C5_Witness ==
    /\ SasRan
    /\ stored.cilium_configured
    /\ config.enable_hubble
    /\ ~stored.hubble_configured
    /\ ~stored.unallowed_metrics

(***************************************************************************)
(* C6.  With enable-hubble and a metrics value that has a token outside    *)
(* the allow-list, a pass (kubeconfig present) sets unallowed_metrics,     *)
(* does not apply Hubble, sets neither hubble_configured nor               *)
(* cilium_configured, and the handler ends Blocked on the metrics.         *)
(***************************************************************************)
C6_BadMetricsStopThePass ==
    ( /\ pass.ran /\ pass.kube /\ pass.returned
      /\ config.enable_hubble /\ ~MetricsValid )
    =>  /\ pass.stored.unallowed_metrics
        /\ ~Called("apply", "hubble")
        /\ ~Logged(<<"stored", "hubble_configured", "True">>)
        /\ ~pass.stored.cilium_configured
        /\ pass.status = BadMetrics
        /\ status = BadMetrics

(***************************************************************************)
(* C7.  Mismatch detection: after a config-changed trigger with            *)
(* port-forward-hubble = true and enable-hubble = false,                   *)
(* hubble_mismatch_config is true, the port-forward service was not        *)
(* enabled and the unit is Blocked, whatever the other flags are.          *)
(***************************************************************************)
C7_MismatchBlocks ==
    ( /\ last.handler = "config_changed" /\ last.raised = ""
      /\ config.port_forward_hubble /\ ~config.enable_hubble )
    =>  /\ stored.hubble_mismatch_config
        /\ ~Called("systemctl", "enable+start")
        /\ status[1] = "blocked"

(***************************************************************************)
(* C8.  Healthy path: with hubble_configured, hubble_mismatch_config and   *)
(* unallowed_metrics false, a peer with a kubeconfig-hash, the backend     *)
(* healthy, enable-hubble and port-forward-hubble false and the            *)
(* port-forward service not running, peer-relation-changed ends            *)
(* Active("Ready") with cilium_configured and without hubble_configured.   *)
(***************************************************************************)
C8_Scenario ==
    /\ last.handler = "cni_relation_changed"
    /\ ~last.pre.hubble_configured
    /\ ~last.pre.hubble_mismatch_config
    /\ ~last.pre.unallowed_metrics
    /\ ~NoKubeconfigHash(cni)
    /\ pass.healthy
    /\ ~config.enable_hubble
    /\ ~config.port_forward_hubble
    /\ ~service.active

C8_HealthyPathIsActive ==
    C8_Scenario =>
        /\ status = Ready_
        /\ stored.cilium_configured
        /\ ~stored.hubble_configured

C8_Witness == C8_Scenario /\ Logged(<<"apply", "cilium", "ok">>)

(***************************************************************************)
(* C9.  API unreachable: with no kubeconfig-hash on any peer unit,         *)
(* on_config_changed ends with the "Waiting for Kubernetes API" status     *)
(* and cilium_configured = false.  The code lets the port-forward call of  *)
(* the CLI install and the CLI errors replace that status.                 *)
(***************************************************************************)
C9_ApiUnreachableStatusStays ==
    (last.handler = "config_changed" /\ NoKubeconfigHash(cni)) =>
        /\ status = WaitingForApi
        /\ ~stored.cilium_configured

(***************************************************************************)
(* C10.  Idempotent convergence: a second pass right after a first one,    *)
(* with the same configuration and peer data and a healthy backend both    *)
(* times, ends with the same flags and status, and the CNI apply gets the  *)
(* same service-cidr and metrics list.                                     *)
(***************************************************************************)
C10_IdempotentPass ==
    pass.repeat =>
        pass.first = [ stored |-> pass.stored, status |-> pass.status,
                       cni_args |-> pass.cni_args ]

C10_Witness ==
    /\ pass.repeat
    /\ pass.cni_args.applied
    /\ pass.cni_args.hubble_metrics # <<>>
    /\ pass.stored.hubble_configured

(***************************************************************************)
(* C11.  on_update_status runs a convergence pass exactly when              *)
(* cilium_configured is false at the time it is triggered, makes no        *)
(* backend call when the flag is true, and recomputes the status in both   *)
(* cases.  The code of the hook is the status recompute alone.             *)
(***************************************************************************)
C11_UpdateStatusConvergesWhenNeeded ==
    [][ last'.handler = "update_status" =>
          /\ pass'.ran <=> ~stored.cilium_configured
          /\ stored.cilium_configured => ~BackendCalled'
          /\ SasRan' ]_vars

(***************************************************************************)
(* C12.  on_upgrade resets cilium_configured and reinstalls the CLI        *)
(* resources, and the trigger processed right after it (update_status,     *)
(* config-changed or peer-relation-changed) runs a convergence pass; the   *)
(* unit is not reported Active after an upgrade before a pass has run.     *)
(***************************************************************************)
C12_UpgradeForcesConvergence ==
    [][ /\ last'.handler = "upgrade_charm" =>
              /\ ~stored'.cilium_configured
              /\ Logged(<<"enter", "_install_cli_resources", "">>)'
        /\ ( /\ last.handler = "upgrade_charm"
             /\ last'.handler \in {"update_status", "config_changed",
                                   "cni_relation_changed"} )
           => pass'.ran
        /\ ( last.handler = "upgrade_charm" /\ ~pass'.ran )
           => ~Logged(<<"status", "active", "Ready">>)' ]_vars

(***************************************************************************)
(* C13.  The two configuration flags are not sticky: after a               *)
(* config-changed trigger whose pass got to the Hubble step,               *)
(* hubble_mismatch_config is true exactly when port-forward-hubble is      *)
(* requested with Hubble disabled, and unallowed_metrics is true exactly   *)
(* when Hubble is enabled with a metrics list that does not validate.      *)
(***************************************************************************)
C13_FlagsFollowConfiguration ==
    ( last.handler = "config_changed" /\ last.raised = "" /\ pass.kube ) =>
        /\ stored.hubble_mismatch_config
               <=> (config.port_forward_hubble /\ ~config.enable_hubble)
        /\ stored.unallowed_metrics
               <=> (config.enable_hubble /\ ~MetricsValid)

(***************************************************************************)
(* C14.  hubble_configured is written true only right after a Hubble apply *)
(* that succeeded with enable-hubble true, is written false right after    *)
(* every Hubble delete that succeeded and only then, and keeps its value   *)
(* in a handler whose Hubble apply or delete failed; its value is always   *)
(* the last of these writes.                                               *)
(***************************************************************************)
HubbleFlagWrites ==
    SelectSeq(last.log, LAMBDA e : e[1] = "stored" /\ e[2] = "hubble_configured")

HubbleCallFailed ==
    \E i \in 1..Len(last.log) :
        /\ last.log[i][1] \in {"apply", "delete"}
        /\ last.log[i][2] = "hubble"
        /\ last.log[i][3] # "ok"

C14_HubbleConfiguredFollowsBackend ==
    /\ \A i \in 1..Len(last.log) :
          /\ last.log[i] = <<"stored", "hubble_configured", "True">> =>
                /\ i > 1
                /\ last.log[i - 1] = <<"apply", "hubble", "ok">>
                /\ config.enable_hubble
          /\ last.log[i] = <<"stored", "hubble_configured", "False">> =>
                /\ i > 1
                /\ last.log[i - 1] = <<"delete", "hubble", "ok">>
          /\ last.log[i] = <<"delete", "hubble", "ok">> =>
                /\ i < Len(last.log)
                /\ last.log[i + 1] = <<"stored", "hubble_configured", "False">>
    /\ stored.hubble_configured =
          IF HubbleFlagWrites = <<>> THEN last.pre.hubble_configured
          ELSE HubbleFlagWrites[Len(HubbleFlagWrites)][3] = "True"
    /\ HubbleCallFailed =>
          /\ HubbleFlagWrites = <<>>
          /\ stored.hubble_configured = last.pre.hubble_configured

C14_Witness ==
    /\ Logged(<<"delete", "hubble", "client-error">>)
    /\ stored.hubble_configured

(***************************************************************************)
(* C15.  Transient failures are retried by the periodic trigger: once a    *)
(* pass has failed for want of a kubeconfig and the kubeconfig is there    *)
(* with a valid configuration, update_status hooks alone lead to           *)
(* Active("Ready") with cilium_configured true (unless another trigger     *)
(* comes in between).  The case is taken with nothing else in the way of   *)
(* Active: no mismatch, no rejected metrics, the port-forward service as   *)
(* configured.                                                             *)
(***************************************************************************)
C15_Recoverable ==
    /\ status = WaitingForApi
    /\ ~stored.cilium_configured
    /\ get_kubeconfig_status(cni)
    /\ config.enable_hubble => MetricsValid
    /\ ~stored.hubble_mismatch_config
    /\ ~stored.unallowed_metrics
    /\ config.port_forward_hubble => config.enable_hubble
    /\ service.active <=> config.port_forward_hubble

C16_BadMetricsStayBlocked ==
    ( /\ last.handler \in {"update_status", "cni_relation_changed",
                           "cni_relation_joined"}
      /\ last.raised = ""
      /\ last.pre.unallowed_metrics
      /\ config.enable_hubble /\ ~MetricsValid )
    => status[1] = "blocked"

(***************************************************************************)
(* C17.  The Blocked status of a failed CLI install is the status at the   *)
(* end of the handler that wrote it, and a later update_status or          *)
(* peer-relation trigger leaves it in place.                               *)
(***************************************************************************)
CliErrorStatuses ==
    { BlockedStatus("Unable to claim the CLI resources."),
      BlockedStatus("CLI resources missing."),
      BlockedStatus("Error unpacking CLI binaries.") }

C17_CliErrorStaysBlocked ==
    [][ /\ \A s \in CliErrorStatuses :
              Logged(<<"status", s[1], s[2]>>)' => status' = s
        /\ ( /\ status \in CliErrorStatuses
             /\ last'.handler \in {"update_status", "cni_relation_changed",
                                   "cni_relation_joined"} )
           => status' = status ]_vars

(***************************************************************************)
(* C18.  on_config_changed enters its five steps once each and in this     *)
(* order: CNI relation publish, convergence pass, CLI install,             *)
(* port-forward reconcile, status recompute (an exception out of the pass  *)
(* ends the handler after the first two).  The relation data is published  *)
(* before the pass, and every write of a Hubble flag by the pass comes     *)
(* before the port-forward reconcile.                                      *)
(***************************************************************************)
Enters == SelectSeq(last.log, LAMBDA e : e[1] = "enter")

ConfigChangedSteps ==
    << <<"enter", "_configure_cni_relation", "">>,
       <<"enter", "_configure_cilium", "">>,
       <<"enter", "_install_cli_resources", "">>,
       <<"enter", "_on_port_forward_hubble", "">>,
       <<"enter", "_set_active_status", "">> >>

C18_ConfigChangedOrder ==
    last.handler = "config_changed" =>
        /\ Enters = IF last.raised = "" THEN ConfigChangedSteps
                    ELSE SubSeq(ConfigChangedSteps, 1, 2)
        /\ \A i \in 1..Len(last.log) :
              /\ last.log[i][1] = "publish"
                    => i < IndexOf(<<"enter", "_configure_cilium", "">>)
              /\ ( /\ last.raised = ""
                   /\ last.log[i][1] = "stored"
                   /\ last.log[i][2] \in {"hubble_configured", "unallowed_metrics"} )
                    => i < IndexOf(<<"enter", "_on_port_forward_hubble", "">>)

C18_Witness ==
    /\ last.handler = "config_changed"
    /\ last.raised = ""
    /\ Called("publish", config.cluster_pool_ipv4_cidr)
    /\ Logged(<<"stored", "hubble_configured", "True">>)
    /\ Logged(<<"systemctl", "enable+start", "ok">>)

(***************************************************************************)
(* C19.  on_peer_relation_joined publishes the CNI fragment and recomputes *)
(* the status, and it runs no convergence: no apply or delete call, and    *)
(* the four persisted flags are as they were before the trigger.           *)
(***************************************************************************)
Published == \E i \in 1..Len(last.log) : last.log[i][1] = "publish"

C19_JoinedDoesNotConverge ==
    [][ last'.handler = "cni_relation_joined" =>
          /\ Published'
          /\ SasRan'
          /\ ~pass'.ran
          /\ ~BackendCalled'
          /\ stored' = stored ]_vars

C19_Witness ==
    /\ last.handler = "cni_relation_joined"
    /\ Published
    /\ get_kubeconfig_status(cni)
    /\ ~stored.cilium_configured

(***************************************************************************)
(* C20.  Metrics validation in a pass that gets to the Hubble step with    *)
(* Hubble enabled: if every token of the configured string is in the       *)
(* allow-list, the cached list becomes exactly the tokens and              *)
(* unallowed_metrics is false; otherwise the error is raised (the pass     *)
(* records it in unallowed_metrics) and the cached list is as before.      *)
(***************************************************************************)
C20_MetricsValidation ==
    [][ ( pass'.ran /\ pass'.kube /\ config.enable_hubble ) =>
          IF MetricsValid
          THEN /\ hubble_metrics' = Split(config.enable_hubble_metrics)
               /\ ~stored'.unallowed_metrics
          ELSE /\ hubble_metrics' = hubble_metrics
               /\ Logged(<<"stored", "unallowed_metrics", "True">>)' ]_vars

(***************************************************************************)
(* C21.  Bad tunnel settings: a config-changed trigger with a              *)
(* tunnel-protocol outside {vxlan, geneve} ends with a Blocked status; with *)
(* a valid protocol, a kubeconfig and nothing failing it ends              *)
(* Active("Ready").  (Hubble and the port-forward service are off, a       *)
(* kubeconfig is there.)                                                   *)
(***************************************************************************)
NothingFailed ==
    \A i \in 1..Len(last.log) :
        /\ last.log[i][1] \in {"apply", "delete", "systemctl"} => last.log[i][3] = "ok"
        /\ last.log[i][1] = "status" => last.log[i][2] # "blocked"

C21_BadTunnelBlocks ==
    ( last.handler = "config_changed" /\ last.raised = "" /\ pass.kube ) =>
        IF validate_tunnel_protocol(config.tunnel_protocol)
        THEN NothingFailed => status = Ready_
        ELSE status[1] = "blocked"

(***************************************************************************)
(* C22.  A backend exception of a type no handler names ends the pass and  *)
(* the trigger handler where it is raised: the failed call is the last     *)
(* event of the handler (no Waiting status, no defer, no CLI install, no   *)
(* port-forward reconcile, no status recompute), cilium_configured is      *)
(* false from the reset, and every other flag has the value of its last    *)
(* write before the exception, or its value before the handler.            *)
(***************************************************************************)
LastWrite(flag) ==
    LET w == SelectSeq(last.log, LAMBDA e : e[1] = "stored" /\ e[2] = flag)
    IN  IF w = <<>> THEN last.pre[flag] ELSE w[Len(w)][3] = "True"

C22_UnexpectedExceptionAborts ==
    \A i \in 1..Len(last.log) :
        ( last.log[i][1] \in {"apply", "delete"} /\ last.log[i][3] = "unexpected" ) =>
            /\ i = Len(last.log)
            /\ last.raised # ""
            /\ pass.ran /\ ~pass.returned
            /\ status[1] = "maintenance"
            /\ ~stored.cilium_configured
            /\ \A f \in {"hubble_configured", "hubble_mismatch_config",
                         "unallowed_metrics"} : stored[f] = LastWrite(f)

C22_Witness ==
    /\ last.handler = "config_changed"
    /\ Logged(<<"stored", "hubble_configured", "True">>)
    /\ Logged(<<"apply", "cilium", "unexpected">>)

(***************************************************************************)
(* C23.  Hubble removal: with enable-hubble false and hubble_configured    *)
(* true the pass calls the Hubble delete; a client error of the delete     *)
(* ends the pass in Waiting("Waiting to retry Hubble removal.") with       *)
(* hubble_configured still true, no CNI apply and cilium_configured false;  *)
(* a delete that succeeds sets hubble_configured false.                    *)
(***************************************************************************)
C23_HubbleRemoval ==
    ( pass.ran /\ pass.kube /\ ~config.enable_hubble /\ last.pre.hubble_configured ) =>
        /\ Called("delete", "hubble")
        /\ Logged(<<"delete", "hubble", "ok">>) => ~pass.stored.hubble_configured
        /\ Logged(<<"delete", "hubble", "client-error">>) =>
              /\ pass.status = WaitingStatus("Waiting to retry Hubble removal.")
              /\ pass.stored.hubble_configured
              /\ ~Called("apply", "cilium")
              /\ ~pass.stored.cilium_configured

(***************************************************************************)
(* C24.  One Hubble reconcile step calls the Hubble apply once if          *)
(* enable-hubble is true and the metrics list validates and never          *)
(* otherwise, calls the Hubble delete once if enable-hubble is false and   *)
(* hubble_configured is true and never otherwise, and does nothing at all  *)
(* (no call, no flag, no status) when Hubble is disabled and not           *)
(* configured.                                                             *)
(***************************************************************************)
Count(op, set) ==
    Cardinality({i \in 1..Len(last.log) :
                    last.log[i][1] = op /\ last.log[i][2] = set})

\* the events between the reset at the start of the pass and the CNI step
HubbleStepLog ==
    LET from == IndexOf(<<"stored", "cilium_configured", "False">>) + 1
        cni_step == {i \in 1..Len(last.log) :
                        last.log[i] = <<"status", "maintenance", "Applying Cilium resources.">>}
        to == IF cni_step = {} THEN Len(last.log)
              ELSE (CHOOSE i \in cni_step : \A j \in cni_step : i <= j) - 1
    IN  SubSeq(last.log, from, to)

C24_HubbleStepCalls ==
    ( pass.ran /\ pass.kube ) =>
        /\ Count("apply", "hubble") =
              IF config.enable_hubble /\ MetricsValid THEN 1 ELSE 0
        /\ Count("delete", "hubble") =
              IF ~config.enable_hubble /\ last.pre.hubble_configured THEN 1 ELSE 0
        /\ ( ~config.enable_hubble /\ ~last.pre.hubble_configured )
              => HubbleStepLog = <<>>

C24_Witness ==
    /\ pass.ran /\ pass.kube
    /\ ~config.enable_hubble
    /\ ~last.pre.hubble_configured
    /\ Logged(<<"apply", "cilium", "ok">>)

(***************************************************************************)
(* C25.  check_port_forward_service writes the status and nothing else:    *)
(* Blocked when hubble_mismatch_config is true, whatever the service does; *)
(* otherwise the port-forward Waiting status exactly when                  *)
(* port-forward-hubble and the state of the service differ, and no status  *)
(* when they agree.  It makes no systemctl call.                           *)
(***************************************************************************)
\* _set_active_status calls the check right after set_workload_version
CpfRan == Logged(<<"set_workload_version", "", "">>)

CpfLog == LogAfter(<<"set_workload_version", "", "">>)

MismatchBlocked == BlockedStatus("Enable Hubble to use Hubble port-forward service.")
WaitingPortForward == WaitingStatus("Waiting Hubble port-forward service.")

C25_CheckPortForwardService ==
    CpfRan =>
        CpfLog = IF stored.hubble_mismatch_config
                 THEN << <<"status", MismatchBlocked[1], MismatchBlocked[2]>> >>
                 ELSE IF config.port_forward_hubble # service.active
                 THEN << <<"status", WaitingPortForward[1], WaitingPortForward[2]>> >>
                 ELSE <<>>

C25_Witness ==
    /\ CpfRan
    /\ stored.hubble_mismatch_config
    /\ service.active
    /\ status = MismatchBlocked

(***************************************************************************)
(* C26.  Every status recompute ends with the port-forward check, also     *)
(* when it writes no Active status: after a recompute the status is        *)
(* Blocked on a mismatch config, and the port-forward Waiting status when  *)
(* port-forward-hubble and the state of the service differ.                *)
(***************************************************************************)
C26_RecomputeAlwaysChecksPortForward ==
    SasRan =>
        IF stored.hubble_mismatch_config
        THEN status = MismatchBlocked
        ELSE (config.port_forward_hubble # service.active)
                 => status = WaitingPortForward

(***************************************************************************)
(* C27.  on_port_forward_hubble with port-forward-hubble and enable-hubble *)
(* true makes one service call, the one that enables and starts the        *)
(* service, and writes hubble_mismatch_config = false.                     *)
(***************************************************************************)
PfLog == LogAfter(<<"enter", "_on_port_forward_hubble", "">>)

PfSystemctl == SelectSeq(PfLog, LAMBDA e : e[1] = "systemctl")

PfRan == last.handler = "config_changed" /\ last.raised = ""

C27_PortForwardEnabled ==
    ( PfRan /\ config.port_forward_hubble /\ config.enable_hubble ) =>
        /\ Len(PfSystemctl) = 1
        /\ PfSystemctl[1][2] = "enable+start"
        /\ \E i \in 1..Len(PfLog) :
              PfLog[i] = <<"stored", "hubble_mismatch_config", "False">>
        /\ ~stored.hubble_mismatch_config

C27_Witness ==
    /\ PfRan /\ config.port_forward_hubble /\ config.enable_hubble
    /\ last.pre.hubble_mismatch_config
    /\ ~stored.hubble_mismatch_config

(***************************************************************************)
(* C28.  As claimed: on_port_forward_hubble with port-forward-hubble false *)
(* makes a service call that disables the service, whether enable-hubble   *)
(* is true or false, and leaves hubble_mismatch_config as it was.          *)
(***************************************************************************)
C28_PortForwardOffDisables ==
    ( PfRan /\ ~config.port_forward_hubble ) =>
        /\ \E i \in 1..Len(PfSystemctl) : PfSystemctl[i][2] = "disable+stop"
        /\ stored.hubble_mismatch_config = last.pre.hubble_mismatch_config

(***************************************************************************)
(* C28, amended.  on_port_forward_hubble with port-forward-hubble false    *)
(* makes no service call and writes no flag, whether enable-hubble is true *)
(* or false: hubble_mismatch_config is as it was, and the one disable call *)
(* of the config-changed trigger is the one of the CLI install before it.  *)
(***************************************************************************)
C28_PortForwardOffDoesNothing ==
    ( PfRan /\ ~config.port_forward_hubble ) =>
        /\ PfSystemctl = <<>>
        /\ \A i \in 1..Len(PfLog) : PfLog[i][1] # "stored"
        /\ stored.hubble_mismatch_config = last.pre.hubble_mismatch_config
        /\ Count("systemctl", "disable+stop") = 1
        /\ Count("systemctl", "enable+start") = 0

C28_Witness ==
    /\ PfRan /\ ~config.port_forward_hubble
    /\ config.enable_hubble
    /\ last.pre.hubble_mismatch_config
    /\ stored.hubble_mismatch_config

(***************************************************************************)
(* C29.  In a pass with a kubeconfig the status                            *)
(* Maintenance("Applying Cilium resources.") and the CNI apply come before *)
(* every Hubble apply or delete, and a pass whose CNI apply fails calls    *)
(* neither and writes no Hubble flag.                                      *)
(***************************************************************************)
C29_CniBeforeHubble ==
    ( pass.ran /\ pass.kube ) =>
        /\ \A i \in 1..Len(last.log) :
              ( last.log[i][1] \in {"apply", "delete"} /\ last.log[i][2] = "hubble" )
              => \E j \in 1..(i - 1) : last.log[j][1] = "apply" /\ last.log[j][2] = "cilium"
        /\ Logged(<<"apply", "cilium", "client-error">>) =>
              /\ ~Called("apply", "hubble")
              /\ ~Called("delete", "hubble")
              /\ ~Called("stored", "hubble_configured")
              /\ ~Called("stored", "unallowed_metrics")

(***************************************************************************)
(* C30.  A config-changed trigger whose pass ends through a handled        *)
(* outcome (success, no kubeconfig, client error of the backend, rejected  *)
(* metrics) enters the CLI install exactly once, after the pass.           *)
(***************************************************************************)
C30_InstallAlwaysAttempted ==
    ( last.handler = "config_changed" /\ last.raised = "" ) =>
        /\ pass.ran /\ pass.returned
        /\ Cardinality({i \in 1..Len(last.log) :
                           last.log[i] = <<"enter", "_install_cli_resources", "">>}) = 1
        /\ \A i \in 1..Len(last.log) :
              last.log[i][1] \in {"apply", "delete", "defer"}
                  => i < IndexOf(<<"enter", "_install_cli_resources", "">>)

C30_Witness ==
    /\ last.handler = "config_changed"
    /\ Logged(<<"apply", "cilium", "client-error">>)
    /\ Logged(<<"enter", "_install_cli_resources", "">>)

(***************************************************************************)
(* C31.  Publishing the CNI fragment writes, once for every cni relation,  *)
(* cidr = the cluster-pool-ipv4-cidr option and cni-conf-file = the name   *)
(* of the CNI config file found on the node, or "05-cilium.conflist" when  *)
(* there is none; the data of the other units is not touched.  The code    *)
(* does not look at the node, so the claim is stated for whatever is there. *)
(***************************************************************************)
\* what can be found on the node: no CNI config file, or one of this name
NodeConfFiles == {None, "100-cilium.conf"}

ExpectedConfFile(found) == IF found = None THEN "05-cilium.conflist" ELSE found

Publishes == SelectSeq(last.log, LAMBDA e : e[1] = "publish")

C31_PublishedFragment ==
    Logged(<<"enter", "_configure_cni_relation", "">>) =>
        /\ Len(Publishes) = Len(cni)
        /\ \A i \in 1..Len(Publishes) : \A found \in NodeConfFiles :
              /\ Publishes[i][2] = config.cluster_pool_ipv4_cidr
              /\ Publishes[i][3] = ExpectedConfFile(found)

(***************************************************************************)
(* C35.  At the end of every trigger handler a status Active("Ready")      *)
(* comes with cilium_configured true, Hubble disabled or configured,       *)
(* unallowed_metrics false and hubble_mismatch_config false; so the status *)
(* is not Active after an upgrade.                                         *)
(***************************************************************************)
HandlerNames ==
    { "config_changed", "cni_relation_changed", "cni_relation_joined",
      "update_status", "upgrade_charm", "install" }

C35_ActiveMeansConverged ==
    ( last.handler \in HandlerNames /\ last.raised = "" /\ status = Ready_ ) =>
        /\ stored.cilium_configured
        /\ ~config.enable_hubble \/ stored.hubble_configured
        /\ ~stored.unallowed_metrics
        /\ ~stored.hubble_mismatch_config

(***************************************************************************)
(* C36.  A backend failure is not masked as success: a config-changed or   *)
(* peer-relation-changed trigger in which a CNI apply, Hubble apply or     *)
(* Hubble delete raised a client error does not end Active("Ready").       *)
(***************************************************************************)
BackendClientError ==
    \E i \in 1..Len(last.log) :
        last.log[i][1] \in {"apply", "delete"} /\ last.log[i][3] = "client-error"

C36_FailureNotMasked ==
    ( /\ last.handler \in {"config_changed", "cni_relation_changed"}
      /\ BackendClientError )
    => status # Ready_

(***************************************************************************)
(* C37.  Maintenance is transient: a trigger handler that returns normally *)
(* and wrote a status ends with a Waiting, Blocked or Active status.       *)
(***************************************************************************)
WroteStatus == \E i \in 1..Len(last.log) : last.log[i][1] = "status"

C37_NoMaintenanceAtRest ==
    ( last.handler \in HandlerNames /\ last.raised = "" /\ WroteStatus )
    => status[1] \in {"waiting", "blocked", "active"}

(***************************************************************************)
(* C38.  The event is deferred exactly in the retryable outcomes of a      *)
(* pass: once when the kubeconfig is missing and once for every CNI apply, *)
(* Hubble apply or Hubble delete that raised a client error, each time     *)
(* right after the Waiting status was written; a pass without these, also  *)
(* one with a rejected metrics list, defers nothing.                       *)
(***************************************************************************)
Defers == {i \in 1..Len(last.log) : last.log[i][1] = "defer"}

ClientErrorCalls ==
    {i \in 1..Len(last.log) :
        last.log[i][1] \in {"apply", "delete"} /\ last.log[i][3] = "client-error"}

C38_DeferOnRetryableOutcomes ==
    pass.ran =>
        /\ Cardinality(Defers) =
              Cardinality(ClientErrorCalls) + (IF pass.kube THEN 0 ELSE 1)
        /\ \A i \in Defers :
              /\ i > 1
              /\ last.log[i - 1] = <<"status", "waiting", last.log[i][2]>>
              /\ \/ ~pass.kube /\ last.log[i][2] = "Waiting for Kubernetes API"
                 \/ i > 2 /\ (i - 2) \in ClientErrorCalls

C38_Witness ==
    /\ pass.ran
    /\ Logged(<<"stored", "unallowed_metrics", "True">>)
    /\ Logged(<<"apply", "cilium", "client-error">>)
    /\ Cardinality(Defers) = 1

(***************************************************************************)
(* C39.  After a config-changed trigger in which every systemctl call      *)
(* succeeded, the port-forward service runs exactly when                   *)
(* port-forward-hubble and enable-hubble are both true: the CLI install    *)
(* disables it first and only the port-forward reconcile enables it again. *)
(***************************************************************************)
Systemctl == SelectSeq(last.log, LAMBDA e : e[1] = "systemctl")

C39_ServiceFollowsConfiguration ==
    ( /\ last.handler = "config_changed" /\ last.raised = ""
      /\ \A i \in 1..Len(Systemctl) : Systemctl[i][3] = "ok" )
    =>  /\ service.active <=> (config.port_forward_hubble /\ config.enable_hubble)
        /\ Systemctl =
              IF config.port_forward_hubble /\ config.enable_hubble
              THEN << <<"systemctl", "disable+stop", "ok">>,
                      <<"systemctl", "enable+start", "ok">> >>
              ELSE << <<"systemctl", "disable+stop", "ok">> >>

C39_Witness ==
    /\ last.handler = "config_changed" /\ last.raised = ""
    /\ config.port_forward_hubble /\ ~config.enable_hubble
    /\ Systemctl = << <<"systemctl", "disable+stop", "ok">> >>
    /\ ~service.active

(***************************************************************************)
(* C32.  The Grafana Agent handler: off the leader it does nothing; on the *)
(* leader with a kubeconfig it calls the operation exactly once and, when  *)
(* the operation succeeds, recomputes the status after it; when the        *)
(* operation raises ApiError or HTTPError, or when no kubeconfig is        *)
(* available, it defers the event exactly once and does not recompute the  *)
(* status (without kubeconfig it does not call the operation either).      *)
(***************************************************************************)
GrafanaHandlers == {"remote_write_changed", "remote_write_departed"}

GrafanaCalls == SelectSeq(last.log, LAMBDA e : e[1] = "grafana")

OnLeader == Logged(<<"is_leader", "True", "">>)

RecomputedAfterCall ==
    \E i, j \in 1..Len(last.log) :
        /\ i < j
        /\ last.log[i][1] = "grafana"
        /\ last.log[j] = <<"enter", "_set_active_status", "">>

C32_GrafanaAgentHandler ==
    [][ ( /\ last'.handler \in GrafanaHandlers
          /\ last'.raised = ""
          /\ last'.log # <<>> )
        =>  /\ ~OnLeader' =>
                  /\ status' = status /\ stored' = stored
                  /\ Len(GrafanaCalls') = 0 /\ Cardinality(Defers') = 0 /\ ~SasRan'
            /\ (OnLeader' /\ NoKubeconfigHash(cni)) =>
                  /\ Len(GrafanaCalls') = 0
                  /\ Cardinality(Defers') = 1
                  /\ ~SasRan'
                  /\ status' = WaitingForApi
            /\ (OnLeader' /\ ~NoKubeconfigHash(cni)) =>
                  /\ Len(GrafanaCalls') = 1
                  /\ GrafanaCalls'[1][3] = "ok" =>
                        /\ Cardinality(Defers') = 0
                        /\ RecomputedAfterCall'
                  /\ GrafanaCalls'[1][3] # "ok" =>
                        /\ Cardinality(Defers') = 1
                        /\ ~SasRan'
                        /\ status' \in { GrafanaStatus("Applying"),
                                         GrafanaStatus("Removing") } ]_vars

C32_Witness ==
    /\ last.handler = "remote_write_changed"
    /\ OnLeader
    /\ stored.cilium_configured
    /\ Logged(<<"grafana", "apply", "HTTPError">>)
    /\ Cardinality(Defers) = 1
    /\ ~SasRan

(***************************************************************************)
(* C33.  _get_kubeconfig_status returns true exactly when at least one     *)
(* remote unit of at least one cni relation has a kubeconfig-hash that is  *)
(* present and not empty; so it is false without relations, with          *)
(* relations without units and with units without a hash.                  *)
(***************************************************************************)
SomeUnitHasHash ==
    \E i \in 1..Len(cni) : \E j \in 1..Len(cni[i].units) :
        /\ cni[i].units[j].kubeconfig_hash # None
        /\ cni[i].units[j].kubeconfig_hash # ""

C33_KubeconfigAvailability ==
    last.handler = "_get_kubeconfig_status" =>
        /\ last.log[1][2] = "True" <=> SomeUnitHasHash
        /\ last.log[1][2] = "False" <=> ~SomeUnitHasHash

C33_Witness ==
    /\ last.handler = "_get_kubeconfig_status"
    /\ Len(cni) = 2
    /\ cni[1] = Relation(<<NotReady>>)
    /\ cni[2] = Relation(<<EmptyHash, Ready>>)
    /\ last.log[1][2] = "True"

(***************************************************************************)
(* C34.  TunnelEncapsulation accepts a protocol and a port exactly when    *)
(* the protocol is vxlan or geneve and the port is not given, empty, or a  *)
(* string of decimal digits whose value lies in 1..65535.  An empty port   *)
(* becomes the default of the protocol (8472 for vxlan, 6081 for geneve),  *)
(* any other accepted port is returned as it was given; a port that was    *)
(* not given becomes the default when its validator runs.                  *)
(***************************************************************************)
Power10(n) == CASE n = 0 -> 1 [] n = 1 -> 10 [] n = 2 -> 100 [] n = 3 -> 1000
                [] n = 4 -> 10000 [] n = 5 -> 100000 [] n = 6 -> 1000000

\* the number a digit string denotes, position by position
RECURSIVE Denotes(_, _)
Denotes(v, i) ==
    IF i > Len(v) THEN 0
    ELSE DigitValue(v[i]) * Power10(Len(v) - i) + Denotes(v, i + 1)

PortInRange(v) ==
    /\ v # <<>>
    /\ \A i \in 1..Len(v) : v[i] \in DecimalDigits
    /\ Denotes(v, 1) \in 1..65535

DefaultPort(protocol) ==
    IF protocol = "vxlan" THEN <<"8", "4", "7", "2">> ELSE <<"6", "0", "8", "1">>

C34_TunnelValidation ==
    last.handler = "TunnelEncapsulation" =>
        LET protocol == config.tunnel_protocol
            port == config.tunnel_port
            accepted == last.log[1][2] # "ValidationError"
            validated == last.log[1][3]
        IN  /\ accepted <=>
                  /\ protocol \in {"vxlan", "geneve"}
                  /\ port \in {NoPort, <<>>} \/ PortInRange(port)
            /\ accepted =>
                  /\ last.log[1][2] = protocol
                  /\ port = <<>> => validated = DefaultPort(protocol)
                  /\ port = NoPort => validated \in {NoPort, DefaultPort(protocol)}
                  /\ port \notin {NoPort, <<>>} => validated = port

C34_Witness ==
    /\ last.handler = "TunnelEncapsulation"
    /\ config.tunnel_protocol = "geneve"
    /\ config.tunnel_port = <<"6", "5", "5", "3", "5">>
    /\ last.log[1] = <<"return", "geneve", <<"6", "5", "5", "3", "5">> >>

====
